---- MODULE Spec2Model ----
(***************************************************************************)
(* Model of roblox_install::RobloxStudio::locate (src/src/roblox_install.rs)*)
(* and of the launcher command built on it (src/src/main.rs).               *)
(*                                                                         *)
(* A path is a sequence of components; an absolute path starts with the    *)
(* root component "/" or a drive prefix such as "C:".  The environment     *)
(* (target platform, override variable, filesystem, registry, user         *)
(* directories, the outputs of the two helper commands) is chosen in Init  *)
(* and never changes afterwards; the program's own state is the position   *)
(* of the running call and what it has produced so far.                    *)
(***************************************************************************)
EXTENDS Integers, Sequences, FiniteSets, TLC

VARIABLES
    target,        \* cfg(target_os): "windows", "macos" or "other"
    envVar,        \* state of ROBLOX_STUDIO_PATH in the process environment
    fsDirs,        \* paths that are directories
    fsFiles,       \* paths that are regular files
    fsUnreadable,  \* directories on which fs::read_dir fails
    fsBadEntries,  \* paths whose directory entry read_dir yields as Err
    registry,      \* HKCU\Software\Roblox\RobloxStudio
    homeDir,       \* dirs::home_dir()
    documentDir,   \* dirs::document_dir()
    unameOut,      \* outcome of Command::new("uname").arg("-r").output()
    cmdOut,        \* outcome of Command::new("cmd.exe") ... .output()
    args,          \* env::args() of the launcher
    spawnOk,       \* whether the operating system can spawn the executable
    pc,            \* position of the running program
    optResult,     \* value of locate_from_env() held by locate()
    results,       \* values returned by the calls to locate() so far
    trace,         \* external operations performed by the current call
    probed,        \* root handed to locate_from_windows_directory, if any
    order,         \* entries fs::read_dir returned to the current call
    spawned,       \* Command::spawn attempts made by main
    exit           \* how main ended

envVars == <<target, envVar, fsDirs, fsFiles, fsUnreadable, fsBadEntries,
             registry, homeDir, documentDir, unameOut, cmdOut, args, spawnOk>>
progVars == <<pc, optResult, results, trace, probed, order, spawned, exit>>
vars == <<envVars, progVars>>

\* ------------------------------------------------------------------ bounds
NumVersions == 2   \* version folders that may sit in a Versions directory
MaxCalls == 2      \* calls to locate() a library client makes

\* ------------------------------------------------------------- values
ROBLOX_STUDIO_PATH_VARIABLE == "ROBLOX_STUDIO_PATH"

Some(v) == [some |-> TRUE, val |-> v]
NoPath == [some |-> FALSE, val |-> <<>>]

NoStudio ==
    [content |-> <<>>, application |-> <<>>, built_in_plugins |-> <<>>,
     plugins |-> <<>>, root |-> <<>>]
RobloxStudio(content, application, built_in_plugins, plugins, root) ==
    [content |-> content, application |-> application,
     built_in_plugins |-> built_in_plugins, plugins |-> plugins, root |-> root]

Ok(s) == [tag |-> "Ok", err |-> "None", studio |-> s]
Err(e) == [tag |-> "Err", err |-> e, studio |-> NoStudio]
ErrorKinds ==
    {"DocumentsDirectoryNotFound", "MalformedRegistry", "PlatformNotSupported",
     "PluginsDirectoryNotFound", "RegistryError", "EnvironmentVariableError",
     "NotInstalled", "WSLDetectionError"}

NoResult == [some |-> FALSE, val |-> Err("None")]

\* A function's value together with the external operations it performed,
\* the root it handed to locate_from_windows_directory and the entries
\* fs::read_dir gave it.
Did(res, ops) == [res |-> res, ops |-> ops, probed |-> NoPath, listing |-> <<>>]
DidAt(res, ops, root, listing) ==
    [res |-> res, ops |-> ops, probed |-> Some(root), listing |-> listing]

\* ------------------------------------------------------------------ paths
Join(p, c) == Append(p, c)
RootComponents == {"/", "C:"}
Parent(p) ==
    IF Len(p) = 0 \/ (Len(p) = 1 /\ p[1] \in RootComponents)
    THEN NoPath
    ELSE Some(SubSeq(p, 1, Len(p) - 1))

is_dir(p) == p \in fsDirs
is_file(p) == p \in fsFiles

\* The entries of dir, in the order the filesystem hands them out: perm is
\* the filesystem's order over everything it could enumerate.
read_dir(dir, perm) ==
    LET Keep(p) == Parent(p).some /\ Parent(p).val = dir
        Entry(p) == IF p \in fsBadEntries THEN NoPath ELSE Some(p)
        kept == SelectSeq(perm, Keep)
    IN  [i \in 1..Len(kept) |-> Entry(kept[i])]

\* filter_map(|entry| entry.ok())
FilterOk(entries) ==
    LET IsOk(e) == e.some
        oks == SelectSeq(entries, IsOk)
    IN  [i \in 1..Len(oks) |-> oks[i].val]

\* ------------------------------------------------------------------- text
\* Text is a sequence of characters.
Chars(kind, out) == [kind |-> kind, out |-> out]
Whitespace == {" ", "\t", "\r", "\n"}

LowerChar(c) ==
    CASE c = "M" -> "m"
      [] c = "W" -> "w"
      [] c = "S" -> "s"
      [] c = "L" -> "l"
      [] OTHER -> c
to_lowercase(s) == [i \in 1..Len(s) |-> LowerChar(s[i])]

contains(hay, needle) ==
    \E i \in 0..(Len(hay) - Len(needle)) :
        SubSeq(hay, i + 1, i + Len(needle)) = needle

\* Mutation of trim: the output is used as it is.
trim_nothing(s) == s

trim(s) ==
    LET solid == {i \in 1..Len(s) : s[i] \notin Whitespace}
        Min(S) == CHOOSE x \in S : \A y \in S : x <= y
        Max(S) == CHOOSE x \in S : \A y \in S : x >= y
    IN  IF solid = {} THEN <<>> ELSE SubSeq(s, Min(solid), Max(solid))

RECURSIVE AsComponent(_)
AsComponent(s) == IF s = <<>> THEN "" ELSE Head(s) \o AsComponent(Tail(s))

\* String::from_utf8(output.stdout) of a finished command
from_utf8(output) ==
    IF output.kind = "Text" THEN [ok |-> TRUE, val |-> output.out]
    ELSE [ok |-> FALSE, val |-> <<>>]
\* Command::output(): Err when the command could not be run
CommandRan(output) == output.kind # "SpawnErr"

MICROSOFT == <<"m", "i", "c", "r", "o", "s", "o", "f", "t">>
WSL == <<"w", "s", "l">>

is_wsl ==
    IF CommandRan(unameOut)
    THEN LET output_str == from_utf8(unameOut)
         IN  IF output_str.ok
             THEN \/ contains(to_lowercase(output_str.val), MICROSOFT)
                  \/ contains(to_lowercase(output_str.val), WSL)
             ELSE FALSE
    ELSE FALSE

\* --------------------------------------------------------------- locating
EXE == "RobloxStudioBeta.exe"

locate_plugins_on_windows ==
    IF homeDir.some
    THEN [ok |-> TRUE, val |-> homeDir.val \o <<"AppData", "Local", "Roblox", "Plugins">>]
    ELSE [ok |-> FALSE, val |-> <<>>]

\* Mutation of HasApplication: exists() instead of is_file().
HasApplicationExists(version) ==
    is_file(Join(version, EXE)) \/ is_dir(Join(version, EXE))

HasApplication(version) == is_file(Join(version, EXE))

\* Mutation of find_map: takes the last version holding the executable.
find_map_last(versions) ==
    LET found == SelectSeq(versions, HasApplication)
    IN  IF found = <<>> THEN NoPath ELSE Some(found[Len(found)])

\* Mutation of find_map: takes the first version, executable or not.
find_map_any(versions) ==
    IF versions = <<>> THEN NoPath ELSE Some(versions[1])

\* .find_map(|entry| ...): the first version holding the executable
find_map(versions) ==
    LET found == SelectSeq(versions, HasApplication)
    IN  IF found = <<>> THEN NoPath ELSE Some(found[1])

\* Mutation of VersionStudio: content taken from the container of Versions.
VersionStudioContainerContent(version, plugins) ==
    RobloxStudio(Join(SubSeq(version, 1, Len(version) - 2), "content"),
                 Join(version, EXE), Join(version, "BuiltInPlugins"), plugins, version)

VersionStudio(version, plugins) ==
    RobloxStudio(Join(version, "content"), Join(version, EXE),
                 Join(version, "BuiltInPlugins"), plugins, version)

\* Mutation of DirectStudio: the executable is looked for under Versions.
DirectStudioWrongExe(root, content_folder_path, plugins) ==
    RobloxStudio(content_folder_path, Join(Join(root, "Versions"), EXE),
                 Join(root, "BuiltInPlugins"), plugins, root)

DirectStudio(root, content_folder_path, plugins) ==
    RobloxStudio(content_folder_path, Join(root, EXE),
                 Join(root, "BuiltInPlugins"), plugins, root)

locate_from_windows_directory(root, perm) ==
    LET content_folder_path == Join(root, "content")
        plugins == locate_plugins_on_windows
        versions == Join(root, "Versions")
        listing == read_dir(versions, perm)
        version == find_map(FilterOk(listing))
    IN  IF ~plugins.ok
        THEN DidAt(Err("PluginsDirectoryNotFound"), <<"home_dir">>, root, <<>>)
        ELSE IF is_dir(content_folder_path)
        THEN DidAt(Ok(DirectStudio(root, content_folder_path, plugins.val)),
                   <<"home_dir", "is_dir">>, root, <<>>)
        ELSE IF ~is_dir(versions)
        THEN DidAt(Err("NotInstalled"), <<"home_dir", "is_dir", "is_dir">>, root, <<>>)
        ELSE IF versions \in fsUnreadable
        THEN DidAt(Err("NotInstalled"),
                   <<"home_dir", "is_dir", "is_dir", "read_dir">>, root, <<>>)
        ELSE DidAt(IF version.some THEN Ok(VersionStudio(version.val, plugins.val))
                   ELSE Err("NotInstalled"),
                   <<"home_dir", "is_dir", "is_dir", "read_dir">>, root, listing)

locate_from_macos_directory(root) ==
    LET contents == Join(root, "Contents")
        application == contents \o <<"MacOS", "RobloxStudio">>
        built_in_plugins == contents \o <<"Resources", "BuiltInPlugins">>
        content == contents \o <<"Resources", "content">>
    IN  IF ~documentDir.some
        THEN Did(Err("DocumentsDirectoryNotFound"), <<"document_dir">>)
        ELSE Did(Ok(RobloxStudio(content, application, built_in_plugins,
                                 documentDir.val \o <<"Roblox", "Plugins">>, root)),
                 <<"document_dir">>)

locate_from_directory(root, perm) ==
    CASE target = "windows" -> locate_from_windows_directory(root, perm)
      [] target = "macos" -> locate_from_macos_directory(root)
      [] OTHER ->
            IF is_wsl
            THEN LET r == locate_from_windows_directory(root, perm)
                 IN  [r EXCEPT !.ops = <<"uname">> \o r.ops]
            ELSE Did(Err("PlatformNotSupported"), <<"uname">>)

locate_on_windows ==
    IF registry.kind = "NoKey"
    THEN Did(Err("RegistryError"), <<"open_subkey">>)
    ELSE IF registry.kind = "NoValue"
    THEN Did(Err("RegistryError"), <<"open_subkey", "get_value">>)
    ELSE LET content_folder_path == registry.value
             root == Parent(content_folder_path)
             plugins == locate_plugins_on_windows
         IN  IF ~root.some
             THEN Did(Err("MalformedRegistry"), <<"open_subkey", "get_value">>)
             ELSE IF ~plugins.ok
             THEN Did(Err("PluginsDirectoryNotFound"),
                      <<"open_subkey", "get_value", "home_dir">>)
             ELSE Did(Ok(RobloxStudio(content_folder_path, Join(root.val, EXE),
                                      Join(root.val, "BuiltInPlugins"),
                                      plugins.val, root.val)),
                      <<"open_subkey", "get_value", "home_dir">>)

WslRoot(username) ==
    <<"/", "mnt", "c", "Users">> \o <<username>> \o <<"AppData", "Local", "Roblox">>

locate_on_other(perm) ==
    IF ~is_wsl
    THEN Did(Err("PlatformNotSupported"), <<"uname">>)
    ELSE IF ~CommandRan(cmdOut)
    THEN Did(Err("PlatformNotSupported"), <<"uname", "cmd.exe">>)
    ELSE LET username == from_utf8(cmdOut)
         IN  IF ~username.ok
             THEN Did(Err("PlatformNotSupported"), <<"uname", "cmd.exe">>)
             ELSE LET r == locate_from_windows_directory(
                               WslRoot(AsComponent(trim(username.val))), perm)
                  IN  [r EXCEPT !.ops = <<"uname", "cmd.exe">> \o r.ops]

locate_target_specific(perm) ==
    CASE target = "windows" -> locate_on_windows
      [] target = "macos" ->
            locate_from_macos_directory(<<"/", "Applications", "RobloxStudio.app">>)
      [] OTHER -> locate_on_other(perm)

\* variable_value.parse(): PathBuf's FromStr cannot fail (Err = Infallible)
parse(variable_value) == [ok |-> TRUE, val |-> variable_value]

\* env::var(..).ok(): None when the variable is unset and when its value is
\* not valid Unicode
env_var_ok == IF envVar.kind = "Str" THEN Some(envVar.value) ELSE NoPath

locate_from_env(perm) ==
    LET variable_value == env_var_ok
    IN  IF ~variable_value.some
        THEN Did(NoResult, <<"env::var">>)
        ELSE LET path == parse(variable_value.val)
             IN  IF ~path.ok
                 THEN Did([some |-> TRUE, val |-> Err("EnvironmentVariableError")],
                          <<"env::var">>)
                 ELSE LET r == locate_from_directory(path.val, perm)
                      IN  [r EXCEPT !.res = [some |-> TRUE, val |-> r.res],
                                    !.ops = <<"env::var">> \o r.ops]

\* Mutation of HasOverrideResult: a failed override falls through.
HasOverrideSuccess(opt) == opt.some /\ opt.val.tag = "Ok"

\* locate(): unwrap_or_else takes the override's result whenever there is one
HasOverrideResult(opt) == opt.some

\* ------------------------------------------------------------ environment
Targets == {"windows", "macos", "other"}

OverridePath == <<"/", "opt", "studio">>
EnvValues ==
    {[kind |-> "Unset", value |-> <<>>],
     [kind |-> "NotUnicode", value |-> <<>>],
     [kind |-> "Str", value |-> OverridePath]}

HomeDirs(t) ==
    IF t = "macos" THEN {NoPath}
    ELSE {NoPath, Some(IF t = "windows" THEN <<"C:", "Users", "a">>
                       ELSE <<"/", "home", "a">>)}
DocumentDirs(t) ==
    IF t = "macos" THEN {NoPath, Some(<<"/", "Users", "a", "Documents">>)}
    ELSE {NoPath}

Registries(t) ==
    IF t = "windows"
    THEN {[kind |-> "NoKey", value |-> <<>>],
          [kind |-> "NoValue", value |-> <<>>],
          [kind |-> "Value", value |-> <<"C:">>],
          [kind |-> "Value",
           value |-> <<"C:", "Roblox", "Versions", "version-1", "content">>]}
    ELSE {[kind |-> "NoKey", value |-> <<>>]}

UnameOutputs(t) ==
    IF t = "other"
    THEN {Chars("SpawnErr", <<>>),
          Chars("NotUtf8", <<>>),
          Chars("Text", <<"5", ".", "4", "-", "g", "e", "n", "\n">>),
          Chars("Text", <<"4", ".", "4", "-", "M", "i", "c", "r", "o", "s", "o",
                          "f", "t", "\n">>),
          Chars("Text", <<"5", "-", "W", "S", "L", "2", "\n">>)}
    ELSE {Chars("SpawnErr", <<>>)}

CmdOutputs(t) ==
    IF t = "other"
    THEN {Chars("SpawnErr", <<>>),
          Chars("NotUtf8", <<>>),
          Chars("Text", <<"a", "\r", "\n">>),
          Chars("Text", <<" ", "a", "b", "\r", "\n">>)}
    ELSE {Chars("SpawnErr", <<>>)}

\* What a version folder of a Versions directory can be: missing, a folder
\* without the executable, a folder with it, a folder where the executable's
\* name is a directory, a folder whose directory entry cannot be read.
Statuses == {"absent", "empty", "exe", "exedir", "unread"}
VersionName(i) == "version-" \o ToString(i)

Shapes ==
    {sh \in [content : BOOLEAN, versions : BOOLEAN, readable : BOOLEAN,
             child : [1..NumVersions -> Statuses]] :
        ~sh.versions => (sh.readable /\ \A i \in 1..NumVersions : sh.child[i] = "absent")}

\* The directory the run will look into: the override when there is one,
\* else the AppData folder of Windows user "a" seen through /mnt/c.
InstallRoot(e) == IF e.kind = "Str" THEN e.value ELSE WslRoot("a")

VersionDir(root, i) == Join(Join(root, "Versions"), VersionName(i))
DirsOf(root, sh) ==
    (IF sh.content THEN {Join(root, "content")} ELSE {})
    \cup (IF sh.versions THEN {Join(root, "Versions")} ELSE {})
    \cup {VersionDir(root, i) : i \in {j \in 1..NumVersions : sh.child[j] # "absent"}}
    \cup {Join(VersionDir(root, i), EXE) :
            i \in {j \in 1..NumVersions : sh.child[j] = "exedir"}}
FilesOf(root, sh) ==
    {Join(VersionDir(root, i), EXE) :
        i \in {j \in 1..NumVersions : sh.child[j] \in {"exe", "unread"}}}
UnreadableOf(root, sh) == IF sh.readable THEN {} ELSE {Join(root, "Versions")}
BadEntriesOf(root, sh) ==
    {VersionDir(root, i) : i \in {j \in 1..NumVersions : sh.child[j] = "unread"}}

EnvInit ==
    /\ target \in Targets
    /\ envVar \in EnvValues
    /\ \E sh \in Shapes :
        /\ fsDirs = DirsOf(InstallRoot(envVar), sh)
        /\ fsFiles = FilesOf(InstallRoot(envVar), sh)
        /\ fsUnreadable = UnreadableOf(InstallRoot(envVar), sh)
        /\ fsBadEntries = BadEntriesOf(InstallRoot(envVar), sh)
    /\ registry \in Registries(target)
    /\ homeDir \in HomeDirs(target)
    /\ documentDir \in DocumentDirs(target)
    /\ unameOut \in UnameOutputs(target)
    /\ cmdOut \in CmdOutputs(target)

ProgInit ==
    /\ optResult = NoResult
    /\ results = <<>>
    /\ trace = <<>>
    /\ probed = NoPath
    /\ order = <<>>
    /\ spawned = <<>>
    /\ exit = "Running"

\* The orders in which the filesystem may enumerate the version folders.
IsVersionFolder(p) == Len(p) >= 2 /\ p[Len(p) - 1] = "Versions" /\ p \in fsDirs
VersionFolders == {p \in fsDirs : IsVersionFolder(p)}
Orders ==
    LET n == Cardinality(VersionFolders)
    IN  {perm \in [1..n -> VersionFolders] :
            \A i, j \in 1..n : i # j => perm[i] # perm[j]}

\* ------------------------------------------------------------------ steps
\* A library client calls RobloxStudio::locate().
CallLocate ==
    /\ pc \in {"idle", "returned"}
    /\ Len(results) < MaxCalls
    /\ pc' = "locate"
    /\ optResult' = NoResult
    /\ trace' = <<>>
    /\ probed' = NoPath
    /\ order' = <<>>
    /\ UNCHANGED <<envVars, results, spawned, exit>>

\* locate(): Self::locate_from_env()
LocateFromEnv ==
    /\ pc = "locate"
    /\ \E perm \in Orders :
        LET r == locate_from_env(perm)
        IN  /\ optResult' = r.res
            /\ trace' = r.ops
            /\ probed' = r.probed
            /\ order' = r.listing
    /\ pc' = "unwrap"
    /\ UNCHANGED <<envVars, results, spawned, exit>>

\* locate(): .unwrap_or_else(..) on Some(result)
UnwrapSome ==
    /\ pc = "unwrap"
    /\ HasOverrideResult(optResult)
    /\ results' = Append(results, optResult.val)
    /\ pc' = "returned"
    /\ UNCHANGED <<envVars, optResult, trace, probed, order, spawned, exit>>

\* locate(): .unwrap_or_else(Self::locate_target_specific) on None
LocateTargetSpecific ==
    /\ pc = "unwrap"
    /\ ~HasOverrideResult(optResult)
    /\ \E perm \in Orders :
        LET r == locate_target_specific(perm)
        IN  /\ results' = Append(results, r.res)
            /\ trace' = trace \o <<"locate_target_specific">> \o r.ops
            /\ probed' = r.probed
            /\ order' = r.listing
    /\ pc' = "returned"
    /\ UNCHANGED <<envVars, optResult, spawned, exit>>

\* Mutation of MainCheckArgs: only too few arguments are refused.
MainCheckArgsAtLeast ==
    /\ pc = "main"
    /\ IF Len(args) < 2
       THEN /\ pc' = "done"
            /\ exit' = IF Len(args) = 0 THEN "Panic" ELSE "Err"
       ELSE /\ pc' = "locate"
            /\ exit' = exit
    /\ UNCHANGED <<envVars, optResult, results, trace, probed, order, spawned>>

\* main: the argument count check
MainCheckArgs ==
    /\ pc = "main"
    /\ IF Len(args) # 2
       THEN /\ pc' = "done"
            /\ exit' = IF Len(args) = 0 THEN "Panic" ELSE "Err"
       ELSE /\ pc' = "locate"
            /\ exit' = exit
    /\ UNCHANGED <<envVars, optResult, results, trace, probed, order, spawned>>

\* main: match RobloxStudio::locate()
MainMatch ==
    /\ pc = "returned"
    /\ IF results[Len(results)].tag = "Err"
       THEN /\ pc' = "done"
            /\ exit' = "Err"
       ELSE /\ pc' = "spawn"
            /\ exit' = exit
    /\ UNCHANGED <<envVars, optResult, results, trace, probed, order, spawned>>

\* main: Command::new(application_path).arg(place_file_path).spawn()
MainSpawn ==
    /\ pc = "spawn"
    /\ spawned' = Append(spawned,
                         [program |-> results[Len(results)].studio.application,
                          arg |-> args[2], started |-> spawnOk])
    /\ exit' = IF spawnOk THEN "Ok" ELSE "Err"
    /\ pc' = "done"
    /\ UNCHANGED <<envVars, optResult, results, trace, probed, order>>

\* ---------------------------------------------------------- specifications
\* A library client that calls locate() up to MaxCalls times.
Init ==
    /\ EnvInit
    /\ args = <<"client">>
    /\ spawnOk = TRUE
    /\ ProgInit
    /\ pc = "idle"

Next ==
    \/ CallLocate
    \/ LocateFromEnv
    \/ UnwrapSome
    \/ LocateTargetSpecific

Spec == Init /\ [][Next]_vars

\* The launcher command.
ArgLists ==
    {<<>>, <<"launch">>, <<"launch", "place.rbxl">>,
     <<"launch", "place.rbxl", "extra">>}

MainInit ==
    /\ EnvInit
    /\ args \in ArgLists
    /\ spawnOk \in BOOLEAN
    /\ ProgInit
    /\ pc = "main"

MainNext ==
    \/ MainCheckArgs
    \/ LocateFromEnv
    \/ UnwrapSome
    \/ LocateTargetSpecific
    \/ MainMatch
    \/ MainSpawn

MainSpec == MainInit /\ [][MainNext]_vars

TypeOK ==
    /\ pc \in {"idle", "main", "locate", "unwrap", "returned", "spawn", "done"}
    /\ exit \in {"Running", "Ok", "Err", "Panic"}
    /\ Len(results) <= MaxCalls

\* ================================================================ claims
Returned == pc \in {"returned", "spawn", "done"} /\ results # <<>>
LastResult == results[Len(results)]
Performed(op) == \E i \in 1..Len(trace) : trace[i] = op
NativeOps == {"locate_target_specific", "open_subkey", "get_value", "cmd.exe"}
OverrideSet == envVar.kind = "Str"

\* Folders of dir that hold the executable as a regular file and whose
\* directory entry can be read.
ValidVersions(dir) ==
    {p \in fsDirs : /\ Len(p) = Len(dir) + 1
                    /\ SubSeq(p, 1, Len(dir)) = dir
                    /\ Append(p, EXE) \in fsFiles
                    /\ p \notin fsBadEntries}
\* Folders of dir that hold the executable as a regular file.
VersionsWithExe(dir) ==
    {p \in fsDirs : /\ Len(p) = Len(dir) + 1
                    /\ SubSeq(p, 1, Len(dir)) = dir
                    /\ Append(p, EXE) \in fsFiles}

\* Bridged detection as the claims describe it: the identification command
\* ran, printed text, and the text carries "microsoft" or "wsl" in any case.
MarkedOutputs ==
    {<<"4", ".", "4", "-", "M", "i", "c", "r", "o", "s", "o", "f", "t", "\n">>,
     <<"5", "-", "W", "S", "L", "2", "\n">>}
Bridged == unameOut.kind = "Text" /\ unameOut.out \in MarkedOutputs
WindowsLayout == target = "windows" \/ (target = "other" /\ Bridged)

\* C1: native discovery runs only when locate_from_env reported no override;
\* when the override is present and resolving from it failed, locate()
\* returns exactly that failure and no native operation is performed.
C1_OverrideFailureSuppressesNative ==
    /\ (\E op \in NativeOps : Performed(op)) => ~optResult.some
    /\ OverrideSet => \A op \in NativeOps : ~Performed(op)
    /\ (Returned /\ OverrideSet /\ optResult.some /\ optResult.val.tag = "Err")
          => LastResult = optResult.val
    /\ (Returned /\ OverrideSet) => (optResult.some /\ LastResult = optResult.val)

\* An override that fails although native discovery would have succeeded.
C1_Witness ==
    /\ Returned /\ OverrideSet /\ target = "windows"
    /\ registry.kind = "Value" /\ Len(registry.value) > 1 /\ homeDir.some
    /\ LastResult = Err("NotInstalled")

\* C2: an override that is set but cannot be interpreted as a path makes
\* locate() fail with EnvironmentVariableError without native discovery.
C2_UnparsableOverrideIsEnvironmentVariableError ==
    (Returned /\ envVar.kind = "NotUnicode")
        => /\ LastResult = Err("EnvironmentVariableError")
           /\ ~Performed("locate_target_specific")

\* C3 as stated: an override whose content subdirectory exists yields, on
\* every platform variant, a Descriptor rooted at the override with
\* content = root/content and application = root/RobloxStudioBeta.exe.
C3_DirectShapeSucceedsEverywhere ==
    (Returned /\ OverrideSet /\ Append(envVar.value, "content") \in fsDirs)
        => /\ LastResult.tag = "Ok"
           /\ LastResult.studio.root = envVar.value
           /\ LastResult.studio.content = Append(envVar.value, "content")
           /\ LastResult.studio.application = Append(envVar.value, EXE)

\* C3 amended: that Descriptor is returned on the Windows layout when the
\* home directory is known; without a home directory the call fails with
\* PluginsDirectoryNotFound, on the other target without bridging with
\* PlatformNotSupported, and macOS does not look at the content directory
\* and derives its paths under root/Contents.
C3_DirectShapeOnWindowsLayout ==
    (Returned /\ OverrideSet /\ Append(envVar.value, "content") \in fsDirs)
        => /\ (WindowsLayout /\ homeDir.some)
                => /\ LastResult.tag = "Ok"
                   /\ LastResult.studio.root = envVar.value
                   /\ LastResult.studio.content = Append(envVar.value, "content")
                   /\ LastResult.studio.application = Append(envVar.value, EXE)
           /\ (WindowsLayout /\ ~homeDir.some)
                => LastResult = Err("PluginsDirectoryNotFound")
           /\ (target = "other" /\ ~Bridged)
                => LastResult = Err("PlatformNotSupported")
           /\ (target = "macos" /\ documentDir.some)
                => /\ LastResult.tag = "Ok"
                   /\ LastResult.studio.root = envVar.value
                   /\ LastResult.studio.content =
                        envVar.value \o <<"Contents", "Resources", "content">>
                   /\ LastResult.studio.application =
                        envVar.value \o <<"Contents", "MacOS", "RobloxStudio">>
           /\ (target = "macos" /\ ~documentDir.some)
                => LastResult = Err("DocumentsDirectoryNotFound")

\* A bridged run whose override is a direct installation.
C3_Witness ==
    /\ Returned /\ OverrideSet /\ target = "other" /\ Bridged /\ homeDir.some
    /\ Append(envVar.value, "content") \in fsDirs
    /\ LastResult.tag = "Ok"
    /\ LastResult.studio.application = Append(envVar.value, EXE)

\* The index in the listing of the first readable entry holding the
\* executable as a regular file, 0 when there is none.
FirstValidIndex(listing) ==
    LET good == {k \in 1..Len(listing) :
                    listing[k].some /\ Append(listing[k].val, EXE) \in fsFiles}
    IN  IF good = {} THEN 0 ELSE CHOOSE k \in good : \A j \in good : k <= j

NeitherShape(root) ==
    /\ Append(root, "content") \notin fsDirs
    /\ \/ Append(root, "Versions") \notin fsDirs
       \/ Append(root, "Versions") \in fsUnreadable
       \/ VersionsWithExe(Append(root, "Versions")) = {}

\* C5 as stated: a directory given to the Directory Interpreter that matches
\* neither shape, or whose Versions directory is unreadable or holds no child
\* with the executable, makes locate() fail with NotInstalled and nothing else.
C5_NeitherShapeIsAlwaysNotInstalled ==
    (Returned /\ (probed.some \/ OverrideSet)
     /\ NeitherShape(IF probed.some THEN probed.val ELSE envVar.value))
        => LastResult = Err("NotInstalled")

\* C5 amended: such a directory yields NotInstalled once it reaches the
\* Windows-layout interpreter with a known home directory; without a home
\* directory that interpreter fails with PluginsDirectoryNotFound first, an
\* override on the other target without bridging fails with
\* PlatformNotSupported, and the macOS interpreter does not look at the shape.
C5_NeitherShapeOnWindowsLayout ==
    /\ (Returned /\ probed.some /\ NeitherShape(probed.val))
          => LastResult = IF homeDir.some THEN Err("NotInstalled")
                          ELSE Err("PluginsDirectoryNotFound")
    /\ (Returned /\ OverrideSet /\ NeitherShape(envVar.value))
          => /\ WindowsLayout => probed = Some(envVar.value)
             /\ (target = "other" /\ ~Bridged)
                  => LastResult = Err("PlatformNotSupported")
             /\ target = "macos"
                  => LastResult.err \in {"None", "DocumentsDirectoryNotFound"}

\* A Versions directory with folders, none holding the executable.
C5_Witness ==
    /\ Returned /\ probed.some /\ homeDir.some
    /\ Len(order) >= 1
    /\ VersionsWithExe(Append(probed.val, "Versions")) = {}
    /\ LastResult = Err("NotInstalled")

IsPathUnder(p, root, rel) == p = root \o rel

\* C6: in every Descriptor locate() returns, application, content and
\* built-in plugins paths are derived from the Descriptor's own root.
C6_DescriptorPathsShareRoot ==
    (Returned /\ LastResult.tag = "Ok")
        => LET d == LastResult.studio
           IN  IF target = "macos"
               THEN /\ IsPathUnder(d.application, d.root, <<"Contents", "MacOS", "RobloxStudio">>)
                    /\ IsPathUnder(d.content, d.root, <<"Contents", "Resources", "content">>)
                    /\ IsPathUnder(d.built_in_plugins, d.root,
                                   <<"Contents", "Resources", "BuiltInPlugins">>)
               ELSE /\ IsPathUnder(d.application, d.root, <<EXE>>)
                    /\ IsPathUnder(d.built_in_plugins, d.root, <<"BuiltInPlugins">>)
                    /\ Len(d.content) = Len(d.root) + 1
                    /\ SubSeq(d.content, 1, Len(d.root)) = d.root
                    /\ (probed.some => IsPathUnder(d.content, d.root, <<"content">>))

\* A Descriptor taken from a Versions directory that holds two valid children.
C6_Witness ==
    /\ Returned /\ LastResult.tag = "Ok" /\ probed.some
    /\ Cardinality(ValidVersions(Append(probed.val, "Versions"))) >= 2
    /\ LastResult.studio.root \in ValidVersions(Append(probed.val, "Versions"))

AllVersionFolders == {p \in fsDirs : Len(p) >= 2 /\ p[Len(p) - 1] = "Versions"}
ValidAnywhere ==
    {p \in AllVersionFolders : Append(p, EXE) \in fsFiles /\ p \notin fsBadEntries}

ExpectedUser(out) ==
    CASE out = <<"a", "\r", "\n">> -> "a"
      [] out = <<" ", "a", "b", "\r", "\n">> -> "ab"
      [] OTHER -> "?"

\* C8: on the other target without an override, locate() fails with
\* PlatformNotSupported when bridged detection fails and when the username
\* command fails or prints no text; the username command runs only after
\* detection succeeded; when both succeed the Directory Interpreter is
\* consulted on /mnt/c/Users/<trimmed username>/AppData/Local/Roblox, and in
\* no other case.
C8_BridgedDiscovery ==
    (target = "other" /\ ~OverrideSet)
        => /\ Performed("cmd.exe") => Bridged
           /\ probed.some => (Bridged /\ cmdOut.kind = "Text")
           /\ Returned =>
                /\ ~Bridged =>
                     /\ LastResult = Err("PlatformNotSupported")
                     /\ ~Performed("cmd.exe")
                /\ (Bridged /\ cmdOut.kind # "Text") =>
                     /\ LastResult = Err("PlatformNotSupported")
                     /\ Performed("cmd.exe")
                     /\ ~probed.some
                /\ (Bridged /\ cmdOut.kind = "Text") =>
                     probed = Some(<<"/", "mnt", "c", "Users", ExpectedUser(cmdOut.out),
                                     "AppData", "Local", "Roblox">>)

\* A bridged run (marker in upper case) that found the installation of the
\* user whose name cmd.exe printed with a trailing line end.
C8_Witness ==
    /\ target = "other" /\ ~OverrideSet /\ Returned
    /\ unameOut.kind = "Text" /\ unameOut.out[2] = "-" /\ unameOut.out[3] = "W"
    /\ cmdOut.out = <<"a", "\r", "\n">>
    /\ LastResult.tag = "Ok"
    /\ probed = Some(<<"/", "mnt", "c", "Users", "a", "AppData", "Local", "Roblox">>)

\* C9: main spawns only with exactly one positional argument and a
\* successful locate(), with the resolved application path and that argument;
\* a wrong argument count or a failed resolution ends in an error without a
\* launch attempt, a failed spawn ends in an error, a successful spawn ends
\* main with success.
C9_LaunchOnlyAfterResolution ==
    /\ Len(spawned) <= 1
    /\ Len(args) # 2 => (results = <<>> /\ pc \in {"main", "done"})
    /\ spawned # <<>> =>
          /\ Len(args) = 2
          /\ Len(results) = 1 /\ results[1].tag = "Ok"
          /\ spawned[1].program = results[1].studio.application
          /\ spawned[1].arg = args[2]
    /\ pc = "done" =>
          /\ exit # "Running"
          /\ (Len(args) # 2 \/ (results # <<>> /\ LastResult.tag = "Err"))
                => (exit \in {"Err", "Panic"} /\ spawned = <<>>)
          /\ (Len(args) = 2 /\ LastResult.tag = "Ok")
                => /\ Len(spawned) = 1
                   /\ exit = IF spawnOk THEN "Ok" ELSE "Err"
    /\ pc # "done" => (exit = "Running" /\ spawned = <<>>)

\* main has launched the resolved executable and ended with success.
C9_Witness ==
    /\ pc = "done" /\ exit = "Ok"
    /\ Len(spawned) = 1 /\ spawned[1].started
    /\ spawned[1].arg = "place.rbxl"
    /\ spawned[1].program = LastResult.studio.application

VersionIndex(p) == CHOOSE i \in 1..NumVersions : p[Len(p)] = VersionName(i)

\* C10: an override pointing at a versions container with several versions
\* holding RobloxStudioBeta.exe yields the Descriptor of the latest of them.
C10_LatestVersionIsFound ==
    (/\ Returned /\ OverrideSet /\ probed.some /\ LastResult.tag = "Ok"
     /\ Cardinality(ValidVersions(Append(probed.val, "Versions"))) >= 2
     /\ Append(probed.val, "content") \notin fsDirs)
        => \A p \in ValidVersions(Append(probed.val, "Versions")) :
              VersionIndex(p) <= VersionIndex(LastResult.studio.root)

====
